---- MODULE Spec2Model ----
(***************************************************************************)
(* Browser-side controller of the Vision Guardian proctoring dashboard.    *)
(*                                                                         *)
(* The model follows VisionGuardianApp (static/js/ui.js), APIHandler,      *)
(* CopyPasteMonitor (static/js/copy_paste_monitor.js), ToastNotification   *)
(* (static/js/components/analytics.js, installed as window.toast),         *)
(* FooterComponent.saveSettings (static/js/components/footer.js) and       *)
(* NotificationsComponent.                                                 *)
(*                                                                         *)
(* JavaScript is single threaded: every handler runs to its next await     *)
(* without interruption.  An async method is therefore two actions: the    *)
(* part up to the await (the request is sent) and the continuation that    *)
(* runs when the request settles.  Requests in flight are counted in       *)
(* `pending`, one counter per awaiting continuation.                       *)
(*                                                                         *)
(* Methods are callable in every state (window.app is public, and the      *)
(* Start and Stop buttons stay enabled while a request is in flight); the  *)
(* DOM elements the handlers look up are taken to exist.                   *)
(***************************************************************************)
EXTENDS Integers, Sequences, FiniteSets, TLC

VARIABLES
    isProctoring,         \* app.state.isProctoring
    settings,             \* app.state.settings (a JS object: its fields vary)
    riskScore,            \* app.state.riskScore
    aiMode,               \* app.state.aiMode
    autoRefreshInterval,  \* app.autoRefreshInterval: NULL or a timer id
    timers,               \* live setInterval timers of the page: {[id, period]}
    enabled,              \* copyPasteMonitor.enabled
    listeners,            \* document listeners registered by the monitor, per event type
    statusType,           \* connectivity indicator of the header
    pending,              \* requests in flight, per awaiting continuation
    toasts,               \* toast elements appended to #toast-container by the handler
                          \* that ran last (each removes itself when its timers fire)
    consoleErrors,        \* console.error calls of the handler that ran last
    lastUpdate,           \* app.state.lastUpdate: FALSE for null, TRUE for a Date
    videoStats,           \* the results last handed to VideoComponent.updateStats
    \* CopyPasteMonitor
    violations,           \* copyPasteMonitor.violations, oldest first
    clock,                \* the wall clock read by new Date(), in instants
    dispatched,           \* CustomEvents dispatched on window by the recorder's handler
                          \* that ran last
    alerts,               \* alert() dialogs raised by the recorder's handler that ran last
    returned,             \* the value returned by the recorder's query called last
    \* AnalyticsComponent
    metrics,              \* this.metrics of the analytics panel
    riskMeter,            \* the risk meter of the panel: #riskScore and #riskStatus
    \* ToastNotification
    container,            \* the toast elements in #toast-container, oldest first
    \* NotificationsComponent
    notificationQueue,    \* this.notificationQueue
    isShowing,            \* this.isShowing
    element,              \* #toast-notification: its content and its 'show' class
    nTimers,              \* setTimeout timers of the component not yet fired, oldest first
    enqueued,             \* history: the notifications passed to show(), in order
    displayed,            \* history: the notifications rendered, in order
    \* Counters
    clipboardViolations,  \* app.state.clipboardViolations
    published,            \* history: the clipboardViolation events dispatched so far
    staleStops,           \* history: the stop requests in flight that were sent
                          \* before the running session began (kept in
                          \* SpecSessions only)
    \* VisionGuardianUI, the legacy controller
    uiIsProctoring,       \* this.isProctoring
    updateInterval,       \* this.updateInterval: NULL or a timer id
    statsInterval,        \* this.statsInterval: NULL or a timer id
    uiTimers,             \* live setInterval timers of the legacy page: {[id, period]}
    uiPending,            \* requests of the legacy controller in flight
    startBtnDisabled,     \* this.startBtn.disabled
    stopBtnDisabled,      \* this.stopBtn.disabled
    uptimeInterval,       \* this.uptimeInterval: NULL or a timer id
    uiToast,              \* #toast of the legacy page: its message, colour and 'show' class
    uiToastTimers         \* pending 3 s timers of showToast

\* The state of the session controller.
controllerVars == <<isProctoring, settings, riskScore, aiMode, autoRefreshInterval, timers,
                    statusType, pending, toasts, consoleErrors, lastUpdate, videoStats>>

\* The state of the recorder.
recorderVars == <<enabled, listeners, violations, clock, dispatched, alerts, returned>>

\* The state of the recorder that the session controller never touches.
logVars == <<violations, clock, dispatched, alerts, returned>>

\* The state of the two notification components.
toastVars == <<container>>

\* The state of the analytics panel.
analyticsVars == <<metrics, riskMeter>>
notificationVars == <<notificationQueue, isShowing, element, nTimers, enqueued, displayed>>

\* The violation counter of the controller, and what is kept to state
\* properties about events and sessions.
auditVars == <<clipboardViolations, published, staleStops>>

\* The state of the legacy controller.
legacyVars == <<uiIsProctoring, updateInterval, statsInterval, uiTimers, uiPending,
                startBtnDisabled, stopBtnDisabled, uptimeInterval, uiToast, uiToastTimers>>

vars == <<controllerVars, recorderVars, toastVars, notificationVars, analyticsVars, auditVars, legacyVars>>

----------------------------------------------------------------------------
(* Bounds *)

MaxPending == 2      \* requests of one kind in flight at once
MaxTimers  == 2      \* timer ids the page hands out
MaxRecords == 3      \* clipboard events in a run with all event types
MaxEvents  == 103    \* clipboard events in a run that fills the log
MaxStatEvents == 11  \* clipboard events in a run that asks for statistics
MaxLegacyTimers == 4       \* live setInterval timers of the legacy page
MaxLegacyToastTimers == 2  \* pending timers of showToast of the legacy page
MaxToasts  == 3      \* toast elements in the container at once
MaxNotifications == 3    \* calls of NotificationsComponent.show in a run
MaxNotificationTimers == 3   \* timers of NotificationsComponent pending at once

(* Program constants *)

NULL == 0                    \* null handle; setInterval ids are positive
DefaultRefreshInterval == 2000
SlowPeriod == 2000
FastPeriod == 1000
MinRefreshInterval == 500
MaxRefreshInterval == 10000
SuccessDuration == 3000
ErrorDuration   == 4000
WarningDuration == 3500
InfoDuration    == 3000
NotificationDuration == 5000

----------------------------------------------------------------------------
(* JavaScript values *)

\* A JS number that may be NaN.
Num(n) == [nan |-> FALSE, val |-> n]
NaN    == [nan |-> TRUE,  val |-> 0]

\* Truthiness of a JS number: NaN and 0 are falsy.
Truthy(x) == ~x.nan /\ x.val # 0

\* obj.field as a condition: an absent field is undefined, hence falsy.
FieldTrue(obj, f) == f \in DOMAIN obj /\ obj[f] = TRUE

\* obj.field !== false: an absent field is undefined, hence not false.
FieldNotFalse(obj, f) == f \notin DOMAIN obj \/ obj[f] # FALSE

\* parseInt of the text of the number input, given as its digits.
RECURSIVE DigitsValue(_)
DigitsValue(ds) ==
    IF ds = <<>> THEN 0
    ELSE 10 * DigitsValue(SubSeq(ds, 1, Len(ds) - 1)) + ds[Len(ds)]

parseInt(ds) == IF ds = <<>> THEN NaN ELSE Num(DigitsValue(ds))

\* Texts typed into #refreshInterval: empty, "0", "3000".
IntervalTexts == { <<>>, <<0>>, <<3, 0, 0, 0>> }

\* Messages are sequences of words; + is concatenation.
Contains(msg, word) == \E i \in 1..Len(msg) : msg[i] = word

----------------------------------------------------------------------------
(* Remote service: what fetch() can deliver for one request *)

EventTypes == {"copy", "cut", "paste", "contextmenu"}
Ops == {"init", "status", "start", "stop", "fetch", "screenshot", "analyze"}

NoMessage     == <<>>
ServerMessage == <<"Camera", "unavailable">>

\* data of a body: the risk score for the metrics endpoint, unused elsewhere.
RiskScores == {0, 9}

\* The data of a screenshot response: 0 for a body without data, else the
\* number in the name of the file written.
Screenshots == {0, 1}

\* A successful body is read for its data, an unsuccessful one for its message.
FetchOutcomes(op) ==
    { [t |-> "body", success |-> TRUE, message |-> NoMessage, data |-> d] :
          d \in IF op = "fetch" THEN RiskScores
                ELSE IF op = "screenshot" THEN Screenshots ELSE {0} }
    \cup { [t |-> "body", success |-> FALSE, message |-> m, data |-> 0] :
          m \in {NoMessage, ServerMessage} }
    \cup { [t |-> k, success |-> FALSE, message |-> NoMessage, data |-> 0] :
          k \in {"status500", "abort", "reject"} }

RequestTimeout == <<"Request", "timeout">>

\* Mutant: request that rethrows the AbortError of the fetch as it is.
request_RethrowsAbort(o) ==
    CASE o.t = "body"      -> [threw |-> FALSE, error |-> <<>>, body |-> o]
      [] o.t = "status500" -> [threw |-> TRUE, error |-> <<"HTTP", "500:", "Internal", "Server", "Error">>, body |-> o]
      [] o.t = "abort"     -> [threw |-> TRUE, error |-> <<"The", "user", "aborted", "a", "request.">>, body |-> o]
      [] OTHER             -> [threw |-> TRUE, error |-> <<"Failed", "to", "fetch">>, body |-> o]

\* APIHandler.request: the body of a 2xx response, or a thrown Error.
request(o) ==
    CASE o.t = "body"      -> [threw |-> FALSE, error |-> <<>>, body |-> o]
      [] o.t = "status500" -> [threw |-> TRUE, error |-> <<"HTTP", "500:", "Internal", "Server", "Error">>, body |-> o]
      [] o.t = "abort"     -> [threw |-> TRUE, error |-> RequestTimeout, body |-> o]
      [] OTHER             -> [threw |-> TRUE, error |-> <<"Failed", "to", "fetch">>, body |-> o]

\* response.message || fallback
MessageOr(body, fallback) == IF body.message # <<>> THEN body.message ELSE fallback

----------------------------------------------------------------------------
(* window.toast (ToastNotification) *)

Toast(message, type, duration) == [message |-> message, type |-> type, duration |-> duration]

\* ToastNotification.show: a new element is appended to the container.
show(message, type, duration) == toasts' = <<Toast(message, type, duration)>>

\* A handler path that calls no method of window.toast.
silent == toasts' = <<>>

\* console.error(label, error) in a catch block.
consoleError(label, message) == consoleErrors' = <<[label |-> label, error |-> message]>>

\* A handler path that reaches no console.error.
quiet == consoleErrors' = <<>>

success(message) == show(message, "success", SuccessDuration)
error(message)   == show(message, "error", ErrorDuration)
warning(message) == show(message, "warning", WarningDuration)
info(message)    == show(message, "info", InfoDuration)

----------------------------------------------------------------------------
(* Requests in flight *)

Send(op) ==
    /\ pending[op] < MaxPending
    /\ pending' = [pending EXCEPT ![op] = @ + 1]

Settle(op) ==
    /\ pending[op] > 0
    /\ pending' = [pending EXCEPT ![op] = @ - 1]

----------------------------------------------------------------------------
(* CopyPasteMonitor.start / stop *)

Monitored == {"copy", "cut", "paste"}

monitorStart ==
    IF enabled
    THEN UNCHANGED <<enabled, listeners>>
    ELSE /\ listeners' = [e \in EventTypes |->
                             IF e \in Monitored THEN listeners[e] + 1 ELSE listeners[e]]
         /\ enabled' = TRUE

\* Mutant: stop() clears the flag but leaves the listeners on the document.
monitorStop_KeepsListeners ==
    IF ~enabled
    THEN UNCHANGED <<enabled, listeners>>
    ELSE /\ UNCHANGED listeners
         /\ enabled' = FALSE

monitorStop ==
    IF ~enabled
    THEN UNCHANGED <<enabled, listeners>>
    ELSE /\ listeners' = [e \in EventTypes |->
                             IF e \in Monitored /\ listeners[e] > 0
                             THEN listeners[e] - 1 ELSE listeners[e]]
         /\ enabled' = FALSE

\* Mutant: start() without the `if (this.enabled) return`.
CallStart_NoGuard ==
    /\ listeners' = [e \in EventTypes |->
                         IF e \in Monitored THEN listeners[e] + 1 ELSE listeners[e]]
    /\ enabled' = TRUE
    /\ silent /\ quiet
    /\ dispatched' = <<>> /\ alerts' = <<>>
    /\ UNCHANGED <<violations, clock, returned>>
    /\ UNCHANGED <<isProctoring, settings, riskScore, aiMode, autoRefreshInterval,
                   timers, statusType, pending, lastUpdate, videoStats>>
    /\ UNCHANGED <<toastVars, notificationVars, analyticsVars, auditVars, legacyVars>>

\* copyPasteMonitor.start() called on its own.
CallStart ==
    /\ monitorStart
    /\ silent /\ quiet
    /\ dispatched' = <<>> /\ alerts' = <<>>
    /\ UNCHANGED <<violations, clock, returned>>
    /\ UNCHANGED <<isProctoring, settings, riskScore, aiMode, autoRefreshInterval,
                   timers, statusType, pending, lastUpdate, videoStats>>
    /\ UNCHANGED <<toastVars, notificationVars, analyticsVars, auditVars, legacyVars>>

\* copyPasteMonitor.stop() called on its own.
CallStop ==
    /\ monitorStop
    /\ silent /\ quiet
    /\ dispatched' = <<>> /\ alerts' = <<>>
    /\ UNCHANGED <<violations, clock, returned>>
    /\ UNCHANGED <<isProctoring, settings, riskScore, aiMode, autoRefreshInterval,
                   timers, statusType, pending, lastUpdate, videoStats>>
    /\ UNCHANGED <<toastVars, notificationVars, analyticsVars, auditVars, legacyVars>>

----------------------------------------------------------------------------
(* CopyPasteMonitor: the handlers of copy, cut and paste *)

maxViolations == 100
PreviewLength == 100
AnalysisThreshold == 50
RecentCount == 10

\* The selected or pasted text, by its length.
TextLengths == {50, 80, 150}

\* text.substring(0, n), by its length.
substring(len, n) == IF len > n THEN n ELSE len

\* getSourceElement(event.target): the answer field of the exam page.
getSourceElement == [tagName |-> "TEXTAREA", id |-> "answer", className |-> "none",
                     type |-> "textarea"]

\* The violation objects built by the handlers at instant t; toISOString is
\* kept as the instant it prints.
CopyViolation(len, t) ==
    [type |-> "COPY", timestamp |-> t, textLength |-> len,
     textPreview |-> substring(len, PreviewLength), source |-> getSourceElement]
CutViolation(len, t) ==
    [type |-> "CUT", timestamp |-> t, textLength |-> len,
     textPreview |-> substring(len, PreviewLength), source |-> getSourceElement]
PasteViolation(len, t) ==
    [type |-> "PASTE", timestamp |-> t, textLength |-> len,
     textPreview |-> substring(len, PreviewLength), target |-> getSourceElement]

\* Mutant: recordViolation that never drops the oldest record.
recordViolation_NoShift(log, violation) == Append(log, violation)

\* recordViolation, as the log it leaves.
recordViolation(log, violation) ==
    LET pushed == Append(log, violation)
    IN IF Len(pushed) > maxViolations THEN Tail(pushed) ELSE pushed

\* The log after k listeners have each recorded the violation.
RECURSIVE recordTimes(_, _, _)
recordTimes(log, violation, k) ==
    IF k = 0 THEN log ELSE recordTimes(recordViolation(log, violation), violation, k - 1)

\* Mutant: a listener that drops the oldest record publishes no event.
Deliver_SilentEviction(e, violation) ==
    /\ violations' = recordTimes(violations, violation, listeners[e])
    /\ dispatched' = IF Len(violations) + listeners[e] > maxViolations
                     THEN <<>>
                     ELSE [i \in 1..listeners[e] |->
                              [type |-> "clipboardViolation", detail |-> violation]]
    /\ clock' = clock + 1
    /\ published' = published + (IF Len(violations) + listeners[e] > maxViolations
                                 THEN 0 ELSE listeners[e])

\* The browser delivers one event of type e to every listener registered for
\* it; each listener records the violation and dispatches clipboardViolation.
Deliver(e, violation) ==
    /\ violations' = recordTimes(violations, violation, listeners[e])
    /\ dispatched' = [i \in 1..listeners[e] |->
                          [type |-> "clipboardViolation", detail |-> violation]]
    /\ clock' = clock + 1
    /\ published' = published + listeners[e]

handleCopy(len) ==
    /\ Deliver("copy", CopyViolation(len, clock))
    /\ alerts' = <<>>
    /\ silent /\ quiet
    /\ UNCHANGED returned
    /\ UNCHANGED <<enabled, listeners>>
    /\ UNCHANGED <<isProctoring, settings, riskScore, aiMode, autoRefreshInterval,
                   timers, statusType, pending, lastUpdate, videoStats>>
    /\ UNCHANGED <<toastVars, notificationVars, analyticsVars, legacyVars>>
    /\ UNCHANGED <<clipboardViolations, staleStops>>

handleCut(len) ==
    /\ Deliver("cut", CutViolation(len, clock))
    /\ alerts' = <<>>
    /\ silent /\ quiet
    /\ UNCHANGED returned
    /\ UNCHANGED <<enabled, listeners>>
    /\ UNCHANGED <<isProctoring, settings, riskScore, aiMode, autoRefreshInterval,
                   timers, statusType, pending, lastUpdate, videoStats>>
    /\ UNCHANGED <<toastVars, notificationVars, analyticsVars, legacyVars>>
    /\ UNCHANGED <<clipboardViolations, staleStops>>

\* Mutant: a paste of exactly 50 characters is sent to the analysis too.
isLongPaste_AtLeast(len) == len >= AnalysisThreshold

\* `pastedText.length > 50`: the paste is sent to the AI analysis.
isLongPaste(len) == len > AnalysisThreshold

\* violations.slice(-n): the last n records, all of them when there are fewer.
sliceLast(log, n) ==
    SubSeq(log, (IF Len(log) > n THEN Len(log) - n + 1 ELSE 1), Len(log))

\* byType as the forEach of getStats leaves it: one key for each type that
\* occurs in the log, counting its records.
byType(log) ==
    [t \in {log[i].type : i \in DOMAIN log} |->
        Cardinality({i \in DOMAIN log : log[i].type = t})]

\* Mutant: getStats that reports the oldest records as the recent ones.
getStats_SliceFirst ==
    /\ returned' = [call |-> "getStats",
                    value |-> [total |-> Len(violations),
                               byType |-> byType(violations),
                               recent |-> SubSeq(violations, 1,
                                   IF Len(violations) > RecentCount
                                   THEN RecentCount ELSE Len(violations))]]
    /\ silent /\ quiet
    /\ UNCHANGED <<enabled, listeners, violations, clock, dispatched, alerts>>
    /\ UNCHANGED <<isProctoring, settings, riskScore, aiMode, autoRefreshInterval,
                   timers, statusType, pending, lastUpdate, videoStats>>
    /\ UNCHANGED <<toastVars, notificationVars, analyticsVars, auditVars, legacyVars>>

getStats ==
    /\ returned' = [call |-> "getStats",
                    value |-> [total |-> Len(violations),
                               byType |-> byType(violations),
                               recent |-> sliceLast(violations, RecentCount)]]
    /\ silent /\ quiet
    /\ UNCHANGED <<enabled, listeners, violations, clock, dispatched, alerts>>
    /\ UNCHANGED <<isProctoring, settings, riskScore, aiMode, autoRefreshInterval,
                   timers, statusType, pending, lastUpdate, videoStats>>
    /\ UNCHANGED <<toastVars, notificationVars, analyticsVars, auditVars, legacyVars>>

\* Mutant: getViolations that returns the log itself.
getViolations_NoCopy ==
    /\ returned' = [call |-> "getViolations", value |-> violations, shared |-> TRUE]
    /\ silent /\ quiet
    /\ UNCHANGED <<enabled, listeners, violations, clock, dispatched, alerts>>
    /\ UNCHANGED <<isProctoring, settings, riskScore, aiMode, autoRefreshInterval,
                   timers, statusType, pending, lastUpdate, videoStats>>
    /\ UNCHANGED <<toastVars, notificationVars, analyticsVars, auditVars, legacyVars>>

\* getViolations: `[...this.violations]` is a new array with the same
\* records; `shared` says whether the array returned is the log itself.
getViolations ==
    /\ returned' = [call |-> "getViolations", value |-> violations, shared |-> FALSE]
    /\ silent /\ quiet
    /\ UNCHANGED <<enabled, listeners, violations, clock, dispatched, alerts>>
    /\ UNCHANGED <<isProctoring, settings, riskScore, aiMode, autoRefreshInterval,
                   timers, statusType, pending, lastUpdate, videoStats>>
    /\ UNCHANGED <<toastVars, notificationVars, analyticsVars, auditVars, legacyVars>>

\* The caller of getViolations shortens the array it was given to n elements
\* (pop, splice, length = n); what it changes is the array, and the log too
\* if the two are the same object.
truncateReturned(n) ==
    /\ returned.call = "getViolations"
    /\ n < Len(returned.value)
    /\ returned' = [returned EXCEPT !.value = SubSeq(@, 1, n)]
    /\ violations' = IF returned.shared THEN SubSeq(violations, 1, n) ELSE violations
    /\ silent /\ quiet
    /\ UNCHANGED <<enabled, listeners, clock, dispatched, alerts>>
    /\ UNCHANGED <<isProctoring, settings, riskScore, aiMode, autoRefreshInterval,
                   timers, statusType, pending, lastUpdate, videoStats>>
    /\ UNCHANGED <<toastVars, notificationVars, analyticsVars, auditVars, legacyVars>>

clearViolations ==
    /\ violations' = <<>>
    /\ silent /\ quiet
    /\ UNCHANGED <<enabled, listeners, clock, dispatched, alerts, returned>>
    /\ UNCHANGED <<isProctoring, settings, riskScore, aiMode, autoRefreshInterval,
                   timers, statusType, pending, lastUpdate, videoStats>>
    /\ UNCHANGED <<toastVars, notificationVars, analyticsVars, auditVars, legacyVars>>

\* generateReport; the timestamp of the report is the time of the call.
generateReport ==
    /\ returned' = [call |-> "generateReport",
                    value |-> [monitored        |-> enabled,
                               totalViolations  |-> Len(violations),
                               violationsByType |-> byType(violations),
                               recentViolations |-> sliceLast(violations, RecentCount),
                               timestamp        |-> clock]]
    /\ silent /\ quiet
    /\ UNCHANGED <<enabled, listeners, violations, clock, dispatched, alerts>>
    /\ UNCHANGED <<isProctoring, settings, riskScore, aiMode, autoRefreshInterval,
                   timers, statusType, pending, lastUpdate, videoStats>>
    /\ UNCHANGED <<toastVars, notificationVars, analyticsVars, auditVars, legacyVars>>

\* Mutant: handlePaste that sends the text to the analysis before it records,
\* and records nothing for a text that is analysed.
handlePaste_AnalyzeFirst(len) ==
    /\ IF len > AnalysisThreshold /\ listeners["paste"] > 0
       THEN /\ pending["analyze"] + listeners["paste"] <= MaxPending
            /\ pending' = [pending EXCEPT !["analyze"] = @ + listeners["paste"]]
            /\ dispatched' = <<>>
            /\ clock' = clock + 1
            /\ UNCHANGED <<violations, published>>
       ELSE /\ Deliver("paste", PasteViolation(len, clock))
            /\ UNCHANGED pending
    /\ alerts' = <<>>
    /\ silent /\ quiet
    /\ UNCHANGED returned
    /\ UNCHANGED <<enabled, listeners>>
    /\ UNCHANGED <<isProctoring, settings, riskScore, aiMode, autoRefreshInterval,
                   timers, statusType, lastUpdate, videoStats>>
    /\ UNCHANGED <<toastVars, notificationVars, analyticsVars, legacyVars>>
    /\ UNCHANGED <<clipboardViolations, staleStops>>

\* handlePaste, up to the call of analyzePastedText, and analyzePastedText up
\* to its `await fetch('/api/analyze_text')` (the call is not awaited).
handlePaste(len) ==
    /\ Deliver("paste", PasteViolation(len, clock))
    /\ IF isLongPaste(len) /\ listeners["paste"] > 0
       THEN /\ pending["analyze"] + listeners["paste"] <= MaxPending
            /\ pending' = [pending EXCEPT !["analyze"] = @ + listeners["paste"]]
       ELSE UNCHANGED pending
    /\ alerts' = <<>>
    /\ silent /\ quiet
    /\ UNCHANGED returned
    /\ UNCHANGED <<enabled, listeners>>
    /\ UNCHANGED <<isProctoring, settings, riskScore, aiMode, autoRefreshInterval,
                   timers, statusType, lastUpdate, videoStats>>
    /\ UNCHANGED <<toastVars, notificationVars, analyticsVars, legacyVars>>
    /\ UNCHANGED <<clipboardViolations, staleStops>>

\* What the analysis request comes to: a JSON body saying AI-generated or
\* not, an unsuccessful body, a successful body without data, a body that is
\* not JSON, a rejected fetch.  A request never answered stays pending.
AnalysisOutcomes == {"ai", "human", "unsuccessful", "nodata", "notjson", "reject"}

AiWarning == <<"Warning:", "The", "pasted", "text", "appears", "to", "be", "AI-generated!">>
AiPasted == <<"AI-generated", "text", "pasted!">>
AnalyzeFailed == <<"Failed", "to", "analyze", "pasted", "text:">>

\* analyzePastedText after the await.
analyzePastedTextResume(a) ==
    /\ Settle("analyze")
    /\ alerts' = IF a = "ai" THEN <<AiWarning>> ELSE <<>>
    /\ CASE a = "ai" -> consoleError(AiPasted, <<>>)
         [] a \in {"human", "unsuccessful"} -> quiet
         [] a = "nodata"  -> consoleError(AnalyzeFailed, <<"Cannot", "read", "properties", "of", "undefined">>)
         [] a = "notjson" -> consoleError(AnalyzeFailed, <<"Unexpected", "token">>)
         [] OTHER         -> consoleError(AnalyzeFailed, <<"Failed", "to", "fetch">>)
    /\ silent
    /\ dispatched' = <<>>
    /\ UNCHANGED <<enabled, listeners, violations, clock, returned>>
    /\ UNCHANGED <<isProctoring, settings, riskScore, aiMode, autoRefreshInterval,
                   timers, statusType, lastUpdate, videoStats>>
    /\ UNCHANGED <<toastVars, notificationVars, analyticsVars, auditVars, legacyVars>>

----------------------------------------------------------------------------
(* VisionGuardianApp.startAutoRefresh / stopAutoRefresh *)

FreeTimerIds == {i \in 1..MaxTimers : \A t \in timers : t.id # i}

\* Mutant: startAutoRefresh without the `if (this.autoRefreshInterval) return`.
startAutoRefresh_NoGuard(s) ==
    /\ FreeTimerIds # {}
    /\ LET id == CHOOSE i \in FreeTimerIds : \A j \in FreeTimerIds : i <= j
           interval == IF Truthy(s.refreshInterval)
                       THEN s.refreshInterval.val ELSE DefaultRefreshInterval
       IN /\ timers' = timers \cup {[id |-> id, period |-> interval]}
          /\ autoRefreshInterval' = id

\* s: the settings object in effect when the method runs.
startAutoRefresh(s) ==
    IF autoRefreshInterval # NULL
    THEN UNCHANGED <<autoRefreshInterval, timers>>
    ELSE /\ FreeTimerIds # {}
         /\ LET id == CHOOSE i \in FreeTimerIds : \A j \in FreeTimerIds : i <= j
                interval == IF Truthy(s.refreshInterval)
                            THEN s.refreshInterval.val ELSE DefaultRefreshInterval
            IN /\ timers' = timers \cup {[id |-> id, period |-> interval]}
               /\ autoRefreshInterval' = id

stopAutoRefresh ==
    IF autoRefreshInterval # NULL
    THEN /\ timers' = {t \in timers : t.id # autoRefreshInterval}
         /\ autoRefreshInterval' = NULL
    ELSE UNCHANGED <<autoRefreshInterval, timers>>

----------------------------------------------------------------------------
(* VisionGuardianApp.checkSystemStatus, continuation after the await *)

SystemCheckFailed == <<"System", "check", "failed">>
ConnectionFailed  == <<"System", "connection", "failed:">>

\* Mutant: the catch block marks the system offline without a toast.
checkSystemStatusResume_NoToast(o) ==
    LET r == request(o) IN
    IF ~r.threw /\ r.body.success
    THEN /\ statusType' = "connected"
         /\ aiMode' = IF r.body.data = 0 THEN "REAL AI" ELSE "SIMULATION"
         /\ silent /\ quiet
    ELSE LET message == IF r.threw THEN r.error ELSE MessageOr(r.body, SystemCheckFailed)
         IN /\ consoleError(<<"System", "status", "error:">>, message)
            /\ statusType' = "error"
            /\ silent
            /\ UNCHANGED aiMode

checkSystemStatusResume(o) ==
    LET r == request(o) IN
    IF ~r.threw /\ r.body.success
    THEN /\ statusType' = "connected"
         /\ aiMode' = IF r.body.data = 0 THEN "REAL AI" ELSE "SIMULATION"
         /\ silent /\ quiet
    ELSE LET message == IF r.threw THEN r.error ELSE MessageOr(r.body, SystemCheckFailed)
         IN /\ consoleError(<<"System", "status", "error:">>, message)
            /\ statusType' = "error"
            /\ error(ConnectionFailed \o message)
            /\ UNCHANGED aiMode

\* VisionGuardianApp.init, from the end of `await this.checkSystemStatus()`.
init(o) ==
    /\ Settle("init")
    /\ checkSystemStatusResume(o)
    /\ IF FieldTrue(settings, "autoRefresh")
       THEN startAutoRefresh(settings)
       ELSE UNCHANGED <<autoRefreshInterval, timers>>
    /\ UNCHANGED <<isProctoring, settings, riskScore, enabled, listeners,
                   lastUpdate, videoStats>>
    /\ UNCHANGED <<logVars, toastVars, notificationVars, analyticsVars, auditVars, legacyVars>>

----------------------------------------------------------------------------
(* VisionGuardianApp.startProctoring *)

AlreadyActive == <<"Proctoring", "already", "active">>
StartedOk     == <<"Proctoring", "started", "successfully">>
FailedStart   == <<"Failed", "to", "start", "proctoring">>
FailedStartColon == <<"Failed", "to", "start", "proctoring:">>

\* Mutant: startProctoring without the isProctoring guard.
startProctoring_NoGuard ==
    /\ Send("start") /\ silent /\ quiet
    /\ UNCHANGED <<isProctoring, settings, riskScore, aiMode, autoRefreshInterval,
                   timers, enabled, listeners, statusType, lastUpdate, videoStats>>
    /\ UNCHANGED <<logVars, toastVars, notificationVars, analyticsVars, auditVars, legacyVars>>

\* The call, up to `await this.api.startProctoring(0)`.
startProctoring ==
    /\ IF isProctoring
       THEN warning(AlreadyActive) /\ UNCHANGED pending
       ELSE Send("start") /\ silent
    /\ quiet
    /\ UNCHANGED <<isProctoring, settings, riskScore, aiMode, autoRefreshInterval,
                   timers, enabled, listeners, statusType, lastUpdate, videoStats>>
    /\ UNCHANGED <<logVars, toastVars, notificationVars, analyticsVars, auditVars, legacyVars>>

\* The continuation, once the start request has settled with outcome o.
startProctoringResume(o) ==
    LET r == request(o) IN
    /\ Settle("start")
    /\ IF ~r.threw /\ r.body.success
       THEN /\ isProctoring' = TRUE
            /\ IF FieldTrue(settings, "monitorClipboard")
               THEN monitorStart
               ELSE UNCHANGED <<enabled, listeners>>
            /\ startAutoRefresh(settings)
            /\ success(StartedOk) /\ quiet
       ELSE /\ LET message == IF r.threw THEN r.error ELSE MessageOr(r.body, FailedStart)
               IN /\ consoleError(<<"Start", "proctoring", "error:">>, message)
                  /\ error(FailedStartColon \o message)
            /\ UNCHANGED <<isProctoring, enabled, listeners, autoRefreshInterval, timers>>
    /\ UNCHANGED <<settings, riskScore, aiMode, statusType, lastUpdate, videoStats>>
    /\ UNCHANGED <<logVars, toastVars, notificationVars, analyticsVars, legacyVars>>
    /\ UNCHANGED <<clipboardViolations, published>>

----------------------------------------------------------------------------
(* VisionGuardianApp.stopProctoring *)

NotActive  == <<"Proctoring", "not", "active">>
Stopped    == <<"Proctoring", "stopped">>
FailedStop == <<"Failed", "to", "stop", "proctoring">>
FailedStopColon == <<"Failed", "to", "stop", "proctoring:">>

\* The call, up to `await this.api.stopProctoring()`.
stopProctoring ==
    /\ IF ~isProctoring
       THEN warning(NotActive) /\ UNCHANGED pending
       ELSE Send("stop") /\ silent
    /\ quiet
    /\ UNCHANGED <<isProctoring, settings, riskScore, aiMode, autoRefreshInterval,
                   timers, enabled, listeners, statusType, lastUpdate, videoStats>>
    /\ UNCHANGED <<logVars, toastVars, notificationVars, analyticsVars, auditVars, legacyVars>>

\* The continuation, once the stop request has settled with outcome o.
stopProctoringResume(o) ==
    LET r == request(o) IN
    /\ Settle("stop")
    /\ IF ~r.threw /\ r.body.success
       THEN /\ isProctoring' = FALSE
            /\ monitorStop
            /\ stopAutoRefresh
            /\ info(Stopped) /\ quiet
       ELSE /\ LET message == IF r.threw THEN r.error ELSE MessageOr(r.body, FailedStop)
               IN /\ consoleError(<<"Stop", "proctoring", "error:">>, message)
                  /\ error(FailedStopColon \o message)
            /\ UNCHANGED <<isProctoring, enabled, listeners, autoRefreshInterval, timers>>
    /\ UNCHANGED <<settings, riskScore, aiMode, statusType, lastUpdate, videoStats>>
    /\ UNCHANGED <<logVars, toastVars, notificationVars, analyticsVars, legacyVars>>
    /\ UNCHANGED <<clipboardViolations, published>>

----------------------------------------------------------------------------
(* VisionGuardianApp.refreshResults and the interval callback *)

\* The call, up to `await this.api.getProctoringResults()`.
refreshResults ==
    /\ IF ~isProctoring
       THEN UNCHANGED pending
       ELSE Send("fetch")
    /\ silent /\ quiet
    /\ UNCHANGED <<isProctoring, settings, riskScore, aiMode, autoRefreshInterval,
                   timers, enabled, listeners, statusType, lastUpdate, videoStats>>
    /\ UNCHANGED <<logVars, toastVars, notificationVars, analyticsVars, auditVars, legacyVars>>

RefreshResultsError == <<"Refresh", "results", "error:">>
NotAFunction == <<"this.components.analytics.updateData", "is", "not", "a", "function">>

\* Mutant: the catch block reports the failure to the user and gives up polling.
refreshResultsResume_ReportsFailure(o) ==
    LET r == request(o) IN
    /\ Settle("fetch")
    /\ IF r.threw
       THEN /\ consoleError(RefreshResultsError, r.error)
            /\ error(RefreshResultsError \o r.error)
            /\ stopAutoRefresh
            /\ UNCHANGED <<riskScore, lastUpdate, videoStats>>
       ELSE IF r.body.success
       THEN /\ riskScore' = r.body.data
            /\ lastUpdate' = TRUE
            /\ videoStats' = [given |-> TRUE, risk_score |-> r.body.data]
            /\ consoleError(RefreshResultsError, NotAFunction)
            /\ silent
            /\ UNCHANGED <<autoRefreshInterval, timers>>
       ELSE /\ quiet /\ silent
            /\ UNCHANGED <<riskScore, lastUpdate, videoStats, autoRefreshInterval, timers>>
    /\ UNCHANGED <<isProctoring, settings, aiMode, enabled, listeners, statusType>>
    /\ UNCHANGED <<logVars, toastVars, notificationVars, analyticsVars, auditVars, legacyVars>>

\* The continuation.  On success the risk score and the update time are
\* stored and the results handed to the video statistics; the call of
\* this.components.analytics.updateData that follows throws a TypeError
\* (AnalyticsComponent has no such method), which the catch logs like a
\* failure of the request.  An unsuccessful body is skipped without a word.
refreshResultsResume(o) ==
    LET r == request(o) IN
    /\ Settle("fetch")
    /\ IF r.threw
       THEN /\ consoleError(RefreshResultsError, r.error)
            /\ UNCHANGED <<riskScore, lastUpdate, videoStats>>
       ELSE IF r.body.success
       THEN /\ riskScore' = r.body.data
            /\ lastUpdate' = TRUE
            /\ videoStats' = [given |-> TRUE, risk_score |-> r.body.data]
            /\ consoleError(RefreshResultsError, NotAFunction)
       ELSE /\ quiet
            /\ UNCHANGED <<riskScore, lastUpdate, videoStats>>
    /\ silent
    /\ UNCHANGED <<isProctoring, settings, aiMode, autoRefreshInterval, timers,
                   enabled, listeners, statusType>>
    /\ UNCHANGED <<logVars, toastVars, notificationVars, analyticsVars, auditVars, legacyVars>>

\* A live interval timer fires: the callback of startAutoRefresh.
Tick(t) ==
    /\ t \in timers
    /\ refreshResults

----------------------------------------------------------------------------
(* The connection status in the header is clicked: checkSystemStatus *)

\* The call, up to `await this.api.getSystemStatus()`.
checkSystemStatus ==
    /\ Send("status") /\ silent /\ quiet
    /\ UNCHANGED <<isProctoring, settings, riskScore, aiMode, autoRefreshInterval,
                   timers, enabled, listeners, statusType, lastUpdate, videoStats>>
    /\ UNCHANGED <<logVars, toastVars, notificationVars, analyticsVars, auditVars, legacyVars>>

\* The continuation of that call.
checkSystemStatusDone(o) ==
    /\ Settle("status")
    /\ checkSystemStatusResume(o)
    /\ UNCHANGED <<isProctoring, settings, riskScore, autoRefreshInterval,
                   timers, enabled, listeners, lastUpdate, videoStats>>
    /\ UNCHANGED <<logVars, toastVars, notificationVars, analyticsVars, auditVars, legacyVars>>

----------------------------------------------------------------------------
(* VisionGuardianApp.takeScreenshot *)

ScreenshotCaptured == <<"Screenshot", "captured:">>
FailedScreenshot   == <<"Failed", "to", "capture", "screenshot">>
ScreenshotError    == <<"Screenshot", "error:">>
NoFilename == <<"Cannot", "read", "properties", "of", "undefined", "(reading", "'filename')">>

\* response.data.filename
filename(d) == IF d = 1 THEN "screenshot_1.jpg" ELSE "screenshot.jpg"

\* The call, up to `await this.api.takeScreenshot()`.
takeScreenshot ==
    /\ Send("screenshot") /\ silent /\ quiet
    /\ UNCHANGED <<isProctoring, settings, riskScore, aiMode, autoRefreshInterval,
                   timers, enabled, listeners, statusType, lastUpdate, videoStats>>
    /\ UNCHANGED <<logVars, toastVars, notificationVars, analyticsVars, auditVars, legacyVars>>

\* Mutant: the catch block only logs.
takeScreenshotResume_SilentFailure(o) ==
    LET r == request(o) IN
    /\ Settle("screenshot")
    /\ IF ~r.threw /\ r.body.success /\ r.body.data # 0
       THEN success(ScreenshotCaptured \o <<filename(r.body.data)>>) /\ quiet
       ELSE /\ consoleError(ScreenshotError,
                            IF r.threw THEN r.error
                            ELSE IF r.body.success THEN NoFilename
                            ELSE MessageOr(r.body, FailedScreenshot))
            /\ silent
    /\ UNCHANGED <<isProctoring, settings, riskScore, aiMode, autoRefreshInterval,
                   timers, enabled, listeners, statusType, lastUpdate, videoStats>>
    /\ UNCHANGED <<logVars, toastVars, notificationVars, analyticsVars, auditVars, legacyVars>>

\* The continuation.  A successful body without data throws a TypeError at
\* `response.data.filename`, inside the try.
takeScreenshotResume(o) ==
    LET r == request(o) IN
    /\ Settle("screenshot")
    /\ IF ~r.threw /\ r.body.success /\ r.body.data # 0
       THEN success(ScreenshotCaptured \o <<filename(r.body.data)>>) /\ quiet
       ELSE /\ consoleError(ScreenshotError,
                            IF r.threw THEN r.error
                            ELSE IF r.body.success THEN NoFilename
                            ELSE MessageOr(r.body, FailedScreenshot))
            /\ error(FailedScreenshot)
    /\ UNCHANGED <<isProctoring, settings, riskScore, aiMode, autoRefreshInterval,
                   timers, enabled, listeners, statusType, lastUpdate, videoStats>>
    /\ UNCHANGED <<logVars, toastVars, notificationVars, analyticsVars, auditVars, legacyVars>>

----------------------------------------------------------------------------
(* FooterComponent.saveSettings *)

SettingsSaved == <<"Settings", "saved">>

\* VisionGuardianApp.showNotification under the settings object s.
showNotification(s, message, type, duration) ==
    IF FieldNotFalse(s, "toastEnabled")
    THEN show(message, type, duration)
    ELSE silent

saveSettings(autoRefresh, text, toastEnabled) ==
    LET s == [autoRefresh     |-> autoRefresh,
              refreshInterval |-> parseInt(text),
              soundEnabled    |-> TRUE,
              toastEnabled    |-> toastEnabled,
              theme           |-> "auto"]
    IN /\ settings' = s
       /\ IF s.autoRefresh THEN startAutoRefresh(s) ELSE stopAutoRefresh
       /\ showNotification(s, SettingsSaved, "success", SuccessDuration)
       /\ quiet
       /\ UNCHANGED <<isProctoring, riskScore, aiMode, enabled, listeners,
                      statusType, pending, lastUpdate, videoStats>>
       /\ UNCHANGED <<logVars, toastVars, notificationVars, analyticsVars, auditVars, legacyVars>>

----------------------------------------------------------------------------
(* AnalyticsComponent.update *)

\* The fields of a result object of /api/get_results that the panel reads.
ResultFields == {"risk_score", "gaze_level", "person_count",
                 "prohibited_items", "alert_level"}

\* Result objects: each field is present or not.
ResultObjects ==
    { [f \in present |-> full[f]] :
          full \in [risk_score : {2, 9}, gaze_level : {1, 2}, person_count : {1, 2},
                    prohibited_items : {<<"phone">>},
                    alert_level : {"WARNING", "CRITICAL"}],
          present \in SUBSET ResultFields }

\* update called with no argument.
NoResults == [undefined |-> TRUE]

\* results.field || default, for a number, a list and a string.
NumberOr(results, f, default) ==
    IF f \in DOMAIN results /\ results[f] # 0 THEN results[f] ELSE default
ListOr(results, f, default) ==
    IF f \in DOMAIN results THEN results[f] ELSE default
StringOr(results, f, default) ==
    IF f \in DOMAIN results /\ results[f] # "" THEN results[f] ELSE default

\* updateRiskMeter, as the content and the classes it gives #riskScore and
\* #riskStatus.
updateRiskMeter(m) ==
    [score       |-> m.riskScore,
     scoreClass  |-> IF m.riskScore >= 6 THEN "danger"
                     ELSE IF m.riskScore >= 3 THEN "warning" ELSE "safe",
     status      |-> m.alertLevel,
     statusClass |-> IF m.alertLevel = "CRITICAL" THEN "danger"
                     ELSE IF m.alertLevel = "WARNING" THEN "warning" ELSE "safe"]

\* Mutant: update that keeps the earlier value of a metric whose field is
\* absent from the results.
update_Merge(results) ==
    /\ IF results = NoResults
       THEN UNCHANGED <<metrics, riskMeter>>
       ELSE LET m == [riskScore       |-> NumberOr(results, "risk_score", metrics.riskScore),
                      gazeLevel       |-> NumberOr(results, "gaze_level", metrics.gazeLevel),
                      personCount     |-> NumberOr(results, "person_count", metrics.personCount),
                      prohibitedItems |-> ListOr(results, "prohibited_items",
                                                 metrics.prohibitedItems),
                      alertLevel      |-> StringOr(results, "alert_level", metrics.alertLevel)]
            IN /\ metrics' = m
               /\ riskMeter' = updateRiskMeter(m)
    /\ silent /\ quiet
    /\ UNCHANGED <<isProctoring, settings, riskScore, aiMode, autoRefreshInterval,
                   timers, statusType, pending, lastUpdate, videoStats>>
    /\ UNCHANGED <<recorderVars, toastVars, notificationVars, auditVars, legacyVars>>

\* AnalyticsComponent.update
update(results) ==
    /\ IF results = NoResults
       THEN UNCHANGED <<metrics, riskMeter>>
       ELSE LET m == [riskScore       |-> NumberOr(results, "risk_score", 0),
                      gazeLevel       |-> NumberOr(results, "gaze_level", 0),
                      personCount     |-> NumberOr(results, "person_count", 0),
                      prohibitedItems |-> ListOr(results, "prohibited_items", <<>>),
                      alertLevel      |-> StringOr(results, "alert_level", "NORMAL")]
            IN /\ metrics' = m
               /\ riskMeter' = updateRiskMeter(m)
    /\ silent /\ quiet
    /\ UNCHANGED <<isProctoring, settings, riskScore, aiMode, autoRefreshInterval,
                   timers, statusType, pending, lastUpdate, videoStats>>
    /\ UNCHANGED <<recorderVars, toastVars, notificationVars, auditVars, legacyVars>>

----------------------------------------------------------------------------
(* ToastNotification: the container of window.toast *)

\* The calls of window.toast the session controller makes in an Idle or an
\* Active session with no request answered: the two warnings and the error
\* of a failed screenshot.
ToastCalls == { Toast(NotActive, "warning", WarningDuration),
                Toast(AlreadyActive, "warning", WarningDuration),
                Toast(FailedScreenshot, "error", ErrorDuration) }

\* ToastNotification.show: the element is appended to the container at once.
appendChild(toast) ==
    /\ Len(container) < MaxToasts
    /\ container' = Append(container, [toast |-> toast, animation |-> "slideIn"])
    /\ UNCHANGED notificationVars
    /\ UNCHANGED <<controllerVars, recorderVars, analyticsVars, auditVars, legacyVars>>

\* The timer of `duration` ms set by show fires: the element starts to slide out.
slideOut(i) ==
    /\ i \in 1..Len(container)
    /\ container[i].animation = "slideIn"
    /\ container' = [container EXCEPT ![i].animation = "slideOut"]
    /\ UNCHANGED notificationVars
    /\ UNCHANGED <<controllerVars, recorderVars, analyticsVars, auditVars, legacyVars>>

\* The timer of 300 ms set by that callback fires: the element is removed.
remove(i) ==
    /\ i \in 1..Len(container)
    /\ container[i].animation = "slideOut"
    /\ container' = [j \in 1..(Len(container) - 1) |->
                         IF j < i THEN container[j] ELSE container[j + 1]]
    /\ UNCHANGED notificationVars
    /\ UNCHANGED <<controllerVars, recorderVars, analyticsVars, auditVars, legacyVars>>

----------------------------------------------------------------------------
(* NotificationsComponent *)

\* The notifications passed to show(message, type, duration).
Notification(message, type) ==
    [message |-> message, type |-> type, duration |-> NotificationDuration]

NotificationCalls == { Notification("A", "info"), Notification("B", "error") }

\* A pending setTimeout of the component: the auto-hide timer of showNext
\* ("hide") or the 300 ms timer of hide ("showNext"); `during` is the number
\* of notifications rendered when it was set.
Timer(callback) == [callback |-> callback, during |-> Len(displayed)]

\* The sequence s without its i-th element.
Without(s, i) == [j \in 1..(Len(s) - 1) |-> IF j < i THEN s[j] ELSE s[j + 1]]

\* showNext() on the queue q, with ts the timers pending when it runs.
showNext(q, ts) ==
    IF q = <<>>
    THEN /\ isShowing' = FALSE
         /\ notificationQueue' = q
         /\ nTimers' = ts
         /\ UNCHANGED <<element, displayed>>
    ELSE /\ isShowing' = TRUE
         /\ notificationQueue' = Tail(q)
         /\ element' = [shown |-> TRUE, message |-> Head(q).message, type |-> Head(q).type]
         /\ displayed' = Append(displayed, Head(q))
         /\ nTimers' = Append(ts, [callback |-> "hide", during |-> Len(displayed) + 1])

\* Mutant: show() that puts the new notification at the head of the queue.
notificationsShow_Unshift(n) ==
    /\ Len(enqueued) < MaxNotifications
    /\ Len(nTimers) < MaxNotificationTimers
    /\ enqueued' = Append(enqueued, n)
    /\ IF ~isShowing
       THEN showNext(<<n>> \o notificationQueue, nTimers)
       ELSE /\ notificationQueue' = <<n>> \o notificationQueue
            /\ UNCHANGED <<isShowing, element, nTimers, displayed>>
    /\ UNCHANGED toastVars
    /\ UNCHANGED <<controllerVars, recorderVars, analyticsVars, auditVars, legacyVars>>

\* NotificationsComponent.show
notificationsShow(n) ==
    /\ Len(enqueued) < MaxNotifications
    /\ Len(nTimers) < MaxNotificationTimers
    /\ enqueued' = Append(enqueued, n)
    /\ IF ~isShowing
       THEN showNext(Append(notificationQueue, n), nTimers)
       ELSE /\ notificationQueue' = Append(notificationQueue, n)
            /\ UNCHANGED <<isShowing, element, nTimers, displayed>>
    /\ UNCHANGED toastVars
    /\ UNCHANGED <<controllerVars, recorderVars, analyticsVars, auditVars, legacyVars>>

\* Mutant: hide that takes the notification off the screen and schedules
\* nothing.
hide_NoShowNext(ts) ==
    /\ element' = [element EXCEPT !.shown = FALSE]
    /\ nTimers' = ts
    /\ UNCHANGED <<notificationQueue, isShowing, enqueued, displayed>>
    /\ UNCHANGED toastVars
    /\ UNCHANGED <<controllerVars, recorderVars, analyticsVars, auditVars, legacyVars>>

\* NotificationsComponent.hide, with ts the timers pending when it runs.
hide(ts) ==
    /\ element' = [element EXCEPT !.shown = FALSE]
    /\ nTimers' = Append(ts, Timer("showNext"))
    /\ UNCHANGED <<notificationQueue, isShowing, enqueued, displayed>>
    /\ UNCHANGED toastVars
    /\ UNCHANGED <<controllerVars, recorderVars, analyticsVars, auditVars, legacyVars>>

\* The close button of the element is clicked.
closeClick ==
    /\ Len(nTimers) < MaxNotificationTimers
    /\ hide(nTimers)

\* A pending timer fires and runs its callback.
timerFires(i) ==
    /\ i \in 1..Len(nTimers)
    /\ IF nTimers[i].callback = "hide"
       THEN hide(Without(nTimers, i))
       ELSE /\ showNext(notificationQueue, Without(nTimers, i))
            /\ UNCHANGED enqueued
            /\ UNCHANGED toastVars
    /\ UNCHANGED <<controllerVars, recorderVars, analyticsVars, auditVars, legacyVars>>

----------------------------------------------------------------------------
(* VisionGuardianUI, the legacy controller *)

\* What fetch and response.json() come to in startProctoring and
\* stopProctoring: a body with status 'success', a body with another status,
\* or an error (network failure, a body that is not JSON).
LegacyOutcomes == {"success", "failure", "throw"}

\* clearInterval(id) on the timers ts.
clearInterval(ts, id) == {t \in ts : t.id # id}

\* The id setInterval gives a new timer: one that no live timer has and that
\* none of the handles in refs still holds.
NewTimerId(ts, refs) ==
    LET free == {i \in 1..(MaxLegacyTimers + Cardinality(refs) + 1) :
                    i \notin refs /\ \A t \in ts : t.id # i}
    IN CHOOSE i \in free : \A j \in free : i <= j

\* showToast
showToast(message, type) ==
    /\ uiToastTimers < MaxLegacyToastTimers
    /\ uiToast' = [message |-> message, type |-> type, shown |-> TRUE]
    /\ uiToastTimers' = uiToastTimers + 1

\* The 3 s timer of a showToast fires.
uiToastTimerFires ==
    /\ uiToastTimers > 0
    /\ uiToastTimers' = uiToastTimers - 1
    /\ uiToast' = [uiToast EXCEPT !.shown = FALSE]
    /\ silent /\ quiet
    /\ UNCHANGED <<uiIsProctoring, updateInterval, statsInterval, uiTimers, uiPending,
                   startBtnDisabled, stopBtnDisabled, uptimeInterval>>
    /\ UNCHANGED <<isProctoring, settings, riskScore, aiMode, autoRefreshInterval,
                   timers, statusType, pending, lastUpdate, videoStats>>
    /\ UNCHANGED <<recorderVars, toastVars, notificationVars, analyticsVars, auditVars>>

\* A click on a button of the legacy page that is not disabled: the handler
\* up to its `await fetch(...)`.
uiClick(op) ==
    /\ IF op = "start" THEN ~startBtnDisabled ELSE ~stopBtnDisabled
    /\ uiPending[op] < MaxPending
    /\ uiPending' = [uiPending EXCEPT ![op] = @ + 1]
    /\ silent /\ quiet
    /\ UNCHANGED <<uiIsProctoring, updateInterval, statsInterval, uiTimers,
                   startBtnDisabled, stopBtnDisabled, uptimeInterval, uiToast,
                   uiToastTimers>>
    /\ UNCHANGED <<isProctoring, settings, riskScore, aiMode, autoRefreshInterval,
                   timers, statusType, pending, lastUpdate, videoStats>>
    /\ UNCHANGED <<recorderVars, toastVars, notificationVars, analyticsVars, auditVars>>

UiStarted     == <<"Proctoring", "session", "started">>
UiStopped     == <<"Proctoring", "session", "stopped">>
UiFailedStart == <<"Failed", "to", "start", "proctoring:">>
UiErrorStart  == <<"Error", "starting", "proctoring">>
UiErrorStop   == <<"Error", "stopping", "proctoring">>

\* VisionGuardianUI.startProctoring after the awaits; on success
\* startStatsUpdate and startUptimeCounter run.
uiStartProctoringResume(o) ==
    /\ uiPending["start"] > 0
    /\ uiPending' = [uiPending EXCEPT !["start"] = @ - 1]
    /\ IF o = "success"
       THEN LET cleared   == IF updateInterval # NULL
                             THEN clearInterval(uiTimers, updateInterval) ELSE uiTimers
                stats     == NewTimerId(cleared, {updateInterval, uptimeInterval})
                withStats == cleared \cup {[id |-> stats, period |-> FastPeriod,
                                            callback |-> "loadStatsAndViolations"]}
                stopped   == IF uptimeInterval # NULL
                             THEN clearInterval(withStats, uptimeInterval) ELSE withStats
                uptime    == NewTimerId(stopped, {updateInterval, stats})
                all       == stopped \cup {[id |-> uptime, period |-> FastPeriod,
                                            callback |-> "uptime"]}
            IN /\ Cardinality(all) <= MaxLegacyTimers
               /\ uiIsProctoring' = TRUE
               /\ startBtnDisabled' = TRUE
               /\ stopBtnDisabled' = FALSE
               /\ showToast(UiStarted, "success")
               /\ statsInterval' = stats
               /\ uptimeInterval' = uptime
               /\ uiTimers' = all
               /\ quiet
               /\ UNCHANGED updateInterval
       ELSE /\ IF o = "failure"
               THEN showToast(UiFailedStart \o ServerMessage, "error") /\ quiet
               ELSE /\ showToast(UiErrorStart, "error")
                    /\ consoleError(<<"Error", "starting", "proctoring:">>, NoMessage)
            /\ UNCHANGED <<uiIsProctoring, updateInterval, statsInterval, uiTimers,
                           startBtnDisabled, stopBtnDisabled, uptimeInterval>>
    /\ silent
    /\ UNCHANGED <<isProctoring, settings, riskScore, aiMode, autoRefreshInterval,
                   timers, statusType, pending, lastUpdate, videoStats>>
    /\ UNCHANGED <<recorderVars, toastVars, notificationVars, analyticsVars, auditVars>>

\* VisionGuardianUI.stopProctoring after the awaits; on success
\* stopStatsUpdate runs.  A body with another status does nothing.
uiStopProctoringResume(o) ==
    /\ uiPending["stop"] > 0
    /\ uiPending' = [uiPending EXCEPT !["stop"] = @ - 1]
    /\ IF o = "success"
       THEN LET cleared == IF statsInterval # NULL
                           THEN clearInterval(uiTimers, statsInterval) ELSE uiTimers
                slow    == NewTimerId(cleared, {uptimeInterval})
                all     == cleared \cup {[id |-> slow, period |-> SlowPeriod,
                                          callback |-> "loadStats"]}
            IN /\ Cardinality(all) <= MaxLegacyTimers
               /\ uiIsProctoring' = FALSE
               /\ startBtnDisabled' = FALSE
               /\ stopBtnDisabled' = TRUE
               /\ showToast(UiStopped, "success")
               /\ statsInterval' = NULL
               /\ updateInterval' = slow
               /\ uiTimers' = all
               /\ quiet
               /\ UNCHANGED uptimeInterval
       ELSE /\ IF o = "failure"
               THEN UNCHANGED <<uiToast, uiToastTimers>> /\ quiet
               ELSE /\ showToast(UiErrorStop, "error")
                    /\ consoleError(<<"Error", "stopping", "proctoring:">>, NoMessage)
            /\ UNCHANGED <<uiIsProctoring, updateInterval, statsInterval, uiTimers,
                           startBtnDisabled, stopBtnDisabled, uptimeInterval>>
    /\ silent
    /\ UNCHANGED <<isProctoring, settings, riskScore, aiMode, autoRefreshInterval,
                   timers, statusType, pending, lastUpdate, videoStats>>
    /\ UNCHANGED <<recorderVars, toastVars, notificationVars, analyticsVars, auditVars>>

----------------------------------------------------------------------------
(* The application *)

\* The state when the constructor returns: init() is awaiting the status check.
Init ==
    /\ isProctoring = FALSE
    /\ settings = [refreshInterval  |-> Num(DefaultRefreshInterval),
                   autoRefresh      |-> TRUE,
                   monitorClipboard |-> TRUE]
    /\ riskScore = 0
    /\ aiMode = "checking"
    /\ autoRefreshInterval = NULL
    /\ timers = {}
    /\ enabled = FALSE
    /\ listeners = [e \in EventTypes |-> 0]
    /\ statusType = "initializing"
    /\ pending = [op \in Ops |-> IF op = "init" THEN 1 ELSE 0]
    /\ toasts = <<>>
    /\ consoleErrors = <<>>
    /\ lastUpdate = FALSE
    /\ videoStats = [given |-> FALSE, risk_score |-> 0]
    /\ violations = <<>>
    /\ clock = 0
    /\ dispatched = <<>>
    /\ alerts = <<>>
    /\ returned = [call |-> "none", value |-> 0]
    /\ metrics = [riskScore |-> 0, gazeLevel |-> 0, personCount |-> 0,
                  prohibitedItems |-> <<>>, alertLevel |-> "NORMAL"]
    /\ riskMeter = [score |-> 0, scoreClass |-> "none",
                    status |-> "No Risk", statusClass |-> "safe"]
    /\ container = <<>>
    /\ notificationQueue = <<>>
    /\ isShowing = FALSE
    /\ element = [shown |-> FALSE, message |-> <<>>, type |-> "none"]
    /\ nTimers = <<>>
    /\ enqueued = <<>>
    /\ displayed = <<>>
    /\ clipboardViolations = 0
    /\ published = 0
    /\ staleStops = 0
    /\ uiIsProctoring = FALSE
    /\ updateInterval = 1
    /\ statsInterval = NULL
    /\ uiTimers = {[id |-> 1, period |-> SlowPeriod, callback |-> "loadStatsWhenIdle"]}
    /\ uiPending = [op \in {"start", "stop"} |-> 0]
    /\ startBtnDisabled = FALSE
    \* The markup of the legacy page is not part of the sources; Stop is taken
    \* as disabled until a session starts, as stopProctoring leaves it.
    /\ stopBtnDisabled = TRUE
    /\ uptimeInterval = NULL
    /\ uiToast = [message |-> <<>>, type |-> "none", shown |-> FALSE]
    /\ uiToastTimers = 0

Next ==
    \/ \E o \in FetchOutcomes("init") : init(o)
    \/ startProctoring
    \/ \E o \in FetchOutcomes("start") : startProctoringResume(o) /\ UNCHANGED staleStops
    \/ stopProctoring
    \/ \E o \in FetchOutcomes("stop") : stopProctoringResume(o) /\ UNCHANGED staleStops
    \/ \E t \in timers : Tick(t)
    \/ \E o \in FetchOutcomes("fetch") : refreshResultsResume(o)
    \/ \E a \in BOOLEAN, x \in IntervalTexts, e \in BOOLEAN : saveSettings(a, x, e)

Spec == Init /\ [][Next]_vars

\* A text longer than the preview and than the analysis threshold.
LongText == 150

\* The session and its polling under the settings of the constructor.
NextPolling ==
    \/ \E o \in FetchOutcomes("init") : init(o)
    \/ startProctoring
    \/ \E o \in FetchOutcomes("start") : startProctoringResume(o) /\ UNCHANGED staleStops
    \/ stopProctoring
    \/ \E o \in FetchOutcomes("stop") : stopProctoringResume(o) /\ UNCHANGED staleStops
    \/ \E t \in timers : Tick(t)
    \/ \E o \in FetchOutcomes("fetch") : refreshResultsResume(o)

SpecPolling == Init /\ [][NextPolling]_vars

\* The session buttons, the screenshot button and the connection status of
\* the header, with polling and the settings dialog left alone.
NextButtons ==
    \/ \E o \in FetchOutcomes("init") : init(o)
    \/ startProctoring
    \/ \E o \in FetchOutcomes("start") : startProctoringResume(o) /\ UNCHANGED staleStops
    \/ stopProctoring
    \/ \E o \in FetchOutcomes("stop") : stopProctoringResume(o) /\ UNCHANGED staleStops
    \/ takeScreenshot
    \/ \E o \in FetchOutcomes("screenshot") : takeScreenshotResume(o)
    \/ checkSystemStatus
    \/ \E o \in FetchOutcomes("status") : checkSystemStatusDone(o)

SpecButtons == Init /\ [][NextButtons]_vars

\* The recorder on its own: start and stop are called in any order, the
\* user copies, cuts and pastes, and analysis requests are answered or not.
NextRecorder ==
    \/ CallStart
    \/ CallStop
    \/ clock < MaxRecords /\ \E len \in TextLengths : handleCopy(len)
    \/ clock < MaxRecords /\ \E len \in TextLengths : handleCut(len)
    \/ clock < MaxRecords /\ \E len \in TextLengths : handlePaste(len)
    \/ \E a \in AnalysisOutcomes : analyzePastedTextResume(a)

SpecRecorder == Init /\ [][NextRecorder]_vars

\* The attached recorder under a long run of copy events.
NextLog ==
    \/ CallStart
    \/ CallStop
    \/ enabled /\ clock < MaxEvents /\ handleCopy(LongText)

SpecLog == Init /\ [][NextLog]_vars

\* The requests of the page: the status check of init and the screenshot go
\* through APIHandler.request, the text analysis of a paste through a bare
\* fetch.  APIHandler.request arms a timer that aborts the fetch, so its
\* requests are settled in the end; nothing settles a bare fetch but an
\* answer.
NextTimeouts ==
    \/ \E o \in FetchOutcomes("init") : init(o)
    \/ takeScreenshot
    \/ \E o \in FetchOutcomes("screenshot") : takeScreenshotResume(o)
    \/ CallStart
    \/ clock < MaxRecords /\ handlePaste(LongText)
    \/ \E a \in AnalysisOutcomes : analyzePastedTextResume(a)

SpecTimeouts ==
    /\ Init /\ [][NextTimeouts]_vars
    /\ WF_vars(\E o \in FetchOutcomes("init") : init(o))
    /\ WF_vars(\E o \in FetchOutcomes("screenshot") : takeScreenshotResume(o))

\* The recorder, attached, under copies and short pastes, asked for its
\* statistics at any moment.
ShortText == 50

NextStats ==
    \/ CallStart
    \/ clock < MaxStatEvents /\ handleCopy(ShortText)
    \/ clock < MaxStatEvents /\ handlePaste(ShortText)
    \/ getStats

SpecStats == Init /\ [][NextStats]_vars

\* The attached recorder filled by copy events, then, with room for one more
\* record or for none, under events of every monitored type.
NextEviction ==
    \/ CallStart
    \/ enabled /\ clock < MaxEvents /\ handleCopy(LongText)
    \/ /\ enabled /\ clock < MaxEvents /\ Len(violations) >= maxViolations - 1
       /\ \/ handleCut(LongText)
          \/ handlePaste(ShortText)

SpecEviction == Init /\ [][NextEviction]_vars

\* The analytics panel under calls of update.
NextAnalytics == \E results \in ResultObjects \cup {NoResults} : update(results)

SpecAnalytics == Init /\ [][NextAnalytics]_vars

\* The recorder under its own start and stop, the start and stop of the
\* session, clipboard events and the queries of its log.
NextQueries ==
    \/ CallStart
    \/ CallStop
    \/ startProctoring
    \/ \E o \in FetchOutcomes("start") : startProctoringResume(o) /\ UNCHANGED staleStops
    \/ stopProctoring
    \/ \E o \in FetchOutcomes("stop") : stopProctoringResume(o) /\ UNCHANGED staleStops
    \/ enabled /\ clock < MaxRecords /\ handleCopy(ShortText)
    \/ getStats
    \/ getViolations
    \/ \E n \in 0..MaxRecords : truncateReturned(n)
    \/ clearViolations
    \/ generateReport

SpecQueries == Init /\ [][NextQueries]_vars

\* The continuations of start and stop with the history of the stop requests:
\* a stop request in flight when a session begins was sent in an earlier
\* session; any of the stop requests in flight may be the one that settles.
startProctoringResumeTracked(o) ==
    /\ startProctoringResume(o)
    /\ staleStops' = IF ~isProctoring /\ isProctoring' THEN pending["stop"] ELSE staleStops

stopProctoringResumeTracked(o, stale) ==
    /\ stopProctoringResume(o)
    /\ IF stale
       THEN staleStops > 0 /\ staleStops' = staleStops - 1
       ELSE staleStops < pending["stop"] /\ staleStops' = staleStops

\* The Start and Stop buttons and the answers of the service.
NextSessions ==
    \/ startProctoring
    \/ \E o \in FetchOutcomes("start") : startProctoringResumeTracked(o)
    \/ stopProctoring
    \/ \E o \in FetchOutcomes("stop"), stale \in BOOLEAN :
           stopProctoringResumeTracked(o, stale)

SpecSessions == Init /\ [][NextSessions]_vars

\* The legacy page under clicks on Start and Stop and the answers of the
\* service.
NextLegacy ==
    \/ \E op \in {"start", "stop"} : uiClick(op)
    \/ \E o \in LegacyOutcomes : uiStartProctoringResume(o)
    \/ \E o \in LegacyOutcomes : uiStopProctoringResume(o)
    \/ uiToastTimerFires

SpecLegacy == Init /\ [][NextLegacy]_vars

\* The settings dialog: what can be typed into #refreshInterval includes
\* numbers below its min and above its max attribute ("100", "20000").
TypedIntervals == IntervalTexts \cup { <<1, 0, 0>>, <<2, 0, 0, 0, 0>> }

NextSettings ==
    \/ \E o \in FetchOutcomes("init") : init(o)
    \/ \E a \in BOOLEAN, x \in TypedIntervals, e \in BOOLEAN : saveSettings(a, x, e)

SpecSettings == Init /\ [][NextSettings]_vars

\* window.toast under the calls of the controller.
NextToast ==
    \/ \E toast \in ToastCalls : appendChild(toast)
    \/ \E i \in 1..Len(container) : slideOut(i)
    \/ \E i \in 1..Len(container) : remove(i)

SpecToast == Init /\ [][NextToast]_vars

\* NotificationsComponent under calls of show, clicks on the close button
\* and its timers.
NextNotifications ==
    \/ \E n \in NotificationCalls : notificationsShow(n)
    \/ closeClick
    \/ \E i \in 1..Len(nTimers) : timerFires(i)

SpecNotifications == Init /\ [][NextNotifications]_vars

\* The same, with every timer set by setTimeout firing in the end.
SpecNotificationsFair ==
    SpecNotifications /\ WF_vars(\E i \in 1..Len(nTimers) : timerFires(i))

----------------------------------------------------------------------------
(* Session Controller: properties *)

\* The recorder's listeners for copy, cut and paste are on the document.
Attached == \A e \in Monitored : listeners[e] > 0

\* The session state of the specification, read off the controller: the code
\* keeps the flag isProctoring only; Starting and Stopping are requests in flight.
SessionState ==
    IF isProctoring
    THEN IF pending["stop"] > 0 THEN "Stopping" ELSE "Active"
    ELSE IF pending["start"] > 0 THEN "Starting" ELSE "Idle"

\* The continuation of startProctoring runs for a request that failed.
StartFails(o) ==
    /\ o \in FetchOutcomes("start")
    /\ ~(o.t = "body" /\ o.success)
    /\ startProctoringResume(o)

\* C1: calling startProctoring() while the session is Active sends no start
\* request, leaves the session flag, the polling timer and the recorder as
\* they are, and emits exactly one warning notification.
C1_StartWhileActiveIsNoOp ==
    [][(isProctoring /\ startProctoring) =>
          /\ pending' = pending
          /\ isProctoring' = isProctoring
          /\ autoRefreshInterval' = autoRefreshInterval
          /\ timers' = timers
          /\ enabled' = enabled
          /\ listeners' = listeners
          /\ toasts' = <<Toast(AlreadyActive, "warning", WarningDuration)>>]_vars

\* C1 witness: the session is Active and the last handler emitted the
\* "already active" warning.
C1_Witness ==
    /\ isProctoring
    /\ toasts = <<Toast(AlreadyActive, "warning", WarningDuration)>>

\* C2: at most one start request is pending at any time (a start() issued
\* while an earlier start is in flight sends nothing).
C2_AtMostOneStartPending == pending["start"] <= 1

\* C3: Active is never entered twice without an Idle in between: the
\* start-success side effects (session marked active, success notification)
\* run only when the session is not already active.
C3_ActiveEnteredOncePerSession ==
    [][((\E o \in FetchOutcomes("start") : startProctoringResume(o))
          /\ toasts' = <<Toast(StartedOk, "success", SuccessDuration)>>)
       => ~isProctoring]_vars

\* C4: when start() fails the session is Idle afterwards, that call creates
\* no polling timer and attaches no recorder, and exactly one notification of
\* severity error is emitted; for a timeout its message contains "timeout".
C4_FailedStartEndsIdle ==
    [][\A o \in FetchOutcomes("start") :
          StartFails(o) =>
             /\ isProctoring' = FALSE
             /\ autoRefreshInterval' = autoRefreshInterval
             /\ timers' = timers
             /\ enabled' = enabled
             /\ listeners' = listeners
             /\ Len(toasts') = 1
             /\ toasts'[1].type = "error"
             /\ (o.t = "abort" => Contains(toasts'[1].message, "timeout"))]_vars

\* C5: once the stop request of a stop() called in Active settles, the
\* controller is Idle, the polling timer is cancelled and the recorder is
\* detached, whatever the remote service answered.
C5_StopAlwaysReachesIdle ==
    [][(\E o \in FetchOutcomes("stop") : stopProctoringResume(o)) =>
          /\ isProctoring' = FALSE
          /\ autoRefreshInterval' = NULL
          /\ enabled' = FALSE
          /\ ~Attached']_vars

\* C6: after a stop() that resolves the polling timer is cancelled: no live
\* timer is left to issue a metrics fetch.
C6_ResolvedStopCancelsPolling ==
    [][(\E o \in FetchOutcomes("stop") : stopProctoringResume(o)) =>
          /\ timers' = {}
          /\ autoRefreshInterval' = NULL]_vars

\* C7: calling stop() in any state other than Active (Idle, a start in flight,
\* a stop already in flight) sends no stop request, leaves the state unchanged
\* and emits one warning notification.
C7_StopWhileNotActiveIsNoOp ==
    [][(SessionState # "Active" /\ stopProctoring) =>
          /\ pending' = pending
          /\ isProctoring' = isProctoring
          /\ toasts' = <<Toast(NotActive, "warning", WarningDuration)>>]_vars

\* C8: in every reachable state the polling timer is running if and only if
\* the session is Active.
C8_TimerRunsIffActive == (timers # {}) <=> isProctoring

C10_SingleTimer ==
    /\ Cardinality(timers) <= 1
    /\ autoRefreshInterval = NULL => timers = {}
    /\ autoRefreshInterval # NULL => timers # {} /\ \A t \in timers : t.id = autoRefreshInterval

\* C10 witness: settings with another interval were saved with auto-refresh
\* on while a handle was held: the one timer of the old period is still the
\* only one.
C10_Witness ==
    /\ toasts = <<Toast(SettingsSaved, "success", SuccessDuration)>>
    /\ FieldTrue(settings, "autoRefresh")
    /\ settings.refreshInterval = Num(3000)
    /\ autoRefreshInterval # NULL
    /\ timers = {[id |-> autoRefreshInterval, period |-> DefaultRefreshInterval]}

----------------------------------------------------------------------------
(* Polling: properties *)

\* The request of a metrics fetch failed: network error, timeout or a status
\* outside 2xx.
FetchFails(o) == request(o).threw

\* C11: a metrics fetch that fails (network error, timeout, non-2xx status, or
\* an exception thrown while the result is handled) changes neither the
\* session state nor the polling timer and emits no notification; a failed
\* request also leaves the stored metrics as they were.  The exception is
\* caught inside the callback (it ends in the console), so the timer goes on
\* firing and an Active session goes on fetching.
C11_FailedFetchIsSilent ==
    [][pending'["fetch"] < pending["fetch"] =>
       \A o \in FetchOutcomes("fetch") :
          refreshResultsResume(o) =>
              /\ isProctoring' = isProctoring
              /\ timers' = timers
              /\ autoRefreshInterval' = autoRefreshInterval
              /\ UNCHANGED <<settings, enabled, listeners, statusType>>
              /\ toasts' = <<>>
              /\ FetchFails(o) => UNCHANGED <<riskScore, lastUpdate, videoStats>>
              /\ (FetchFails(o) \/ o.success) => consoleErrors' # <<>>]_vars

\* C11 witness: a metrics request has just timed out in an Active session;
\* the timer is still there and nothing was shown.
C11_Witness ==
    /\ isProctoring
    /\ timers # {}
    /\ autoRefreshInterval # NULL
    /\ consoleErrors = <<[label |-> RefreshResultsError, error |-> <<"Request", "timeout">>]>>
    /\ toasts = <<>>

\* C12: a metrics response that arrives when the session is no longer Active
\* is discarded: the stored risk score, the update time and the video
\* statistics stay as they were.
C12_LateResponseDiscarded ==
    [][~isProctoring /\ pending'["fetch"] < pending["fetch"] =>
       \A o \in FetchOutcomes("fetch") :
          refreshResultsResume(o) => UNCHANGED <<riskScore, lastUpdate, videoStats>>]_vars

\* C13: at most one metrics request is pending at any time.
C13_AtMostOneFetchPending == pending["fetch"] <= 1

----------------------------------------------------------------------------
(* Screenshot and status check: properties *)

\* C19: takeScreenshot changes neither the session state nor the polling timer
\* nor the recorder's attachment, whether the request succeeds or fails, and
\* ends with exactly one notification: a success toast naming the file, or
\* the error toast.
C19_ScreenshotFrame ==
    [][/\ takeScreenshot =>
              /\ UNCHANGED <<isProctoring, autoRefreshInterval, timers, enabled, listeners>>
              /\ toasts' = <<>>
       /\ pending'["screenshot"] < pending["screenshot"] =>
          \A o \in FetchOutcomes("screenshot") :
             takeScreenshotResume(o) =>
                 /\ UNCHANGED <<isProctoring, autoRefreshInterval, timers, enabled, listeners>>
                 /\ Len(toasts') = 1
                 /\ IF o.t = "body" /\ o.success /\ o.data # 0
                    THEN /\ toasts'[1].type = "success"
                         /\ Contains(toasts'[1].message, filename(o.data))
                    ELSE toasts' = <<Toast(FailedScreenshot, "error", ErrorDuration)>>]_vars

\* C19 witness: a screenshot request has failed in an Active session, with
\* the timer running and the recorder attached.
C19_Witness ==
    /\ isProctoring
    /\ timers # {}
    /\ Attached
    /\ toasts = <<Toast(FailedScreenshot, "error", ErrorDuration)>>

\* C20: a status check sets the indicator to connected on a successful
\* response, and to error with exactly one error toast on an exception or an
\* unsuccessful response; it never changes the session state or the timer.
C20_StatusCheck ==
    [][pending'["status"] < pending["status"] =>
       \A o \in FetchOutcomes("status") :
          checkSystemStatusDone(o) =>
              /\ UNCHANGED <<isProctoring, autoRefreshInterval, timers>>
              /\ IF o.t = "body" /\ o.success
                 THEN statusType' = "connected" /\ toasts' = <<>>
                 ELSE /\ statusType' = "error"
                      /\ Len(toasts') = 1
                      /\ toasts'[1].type = "error"]_vars

\* C20 witness: the system had been found online, and a later check, made in
\* an Active session, has failed.
C20_Witness ==
    /\ aiMode = "REAL AI"
    /\ statusType = "error"
    /\ Len(toasts) = 1 /\ toasts[1].type = "error"
    /\ Contains(toasts[1].message, "connection")
    /\ isProctoring
    /\ timers # {}

----------------------------------------------------------------------------
(* Clipboard recorder: properties *)

\* C14: the log never holds more than maxViolations records; once more
\* than maxViolations events have been recorded it holds exactly the last
\* maxViolations of them, oldest first (every event of the run is recorded,
\* at the instant the clock shows).
C14_LogKeepsLastN ==
    /\ Len(violations) <= maxViolations
    /\ Len(violations) = (IF clock < maxViolations THEN clock ELSE maxViolations)
    /\ \A i \in 1..Len(violations) :
          violations[i] = CopyViolation(LongText, clock - Len(violations) + i - 1)

\* C14 witness: three events more than the log can hold have been recorded,
\* and the three oldest are gone.
C14_Witness ==
    /\ clock = maxViolations + 3
    /\ Len(violations) = maxViolations
    /\ violations[1].timestamp = 3
    /\ violations[maxViolations].timestamp = maxViolations + 2

\* C15: start() on an attached recorder and stop() on a detached one change
\* nothing; after any sequence of the two calls every monitored event type
\* has one listener if the recorder is enabled and none if it is not, so an
\* event leaves at most one record and one clipboardViolation event.
C15_StartStopIdempotent ==
    [][/\ \A e \in Monitored : listeners'[e] = (IF enabled' THEN 1 ELSE 0)
       /\ listeners'["contextmenu"] = 0
       /\ (enabled /\ CallStart) => UNCHANGED <<enabled, listeners>>
       /\ (~enabled /\ CallStop) => UNCHANGED <<enabled, listeners>>
       /\ clock' > clock =>
             /\ Len(dispatched') = (IF enabled THEN 1 ELSE 0)
             /\ Len(violations') = Len(violations) + (IF enabled THEN 1 ELSE 0)]_vars

\* C15 witness: the recorder was started, stopped and started again; the
\* event at instant 0 fell in the detached stretch and left nothing, the
\* event at instant 1 was recorded once.
C15_Witness ==
    /\ enabled
    /\ clock = 2
    /\ Len(violations) = 1
    /\ violations[1].timestamp = 1
    /\ Len(dispatched) = 1

\* C16: every paste on the attached recorder appends its record and
\* dispatches its event in the handler itself, before any answer of the
\* text analysis and also while earlier analyses are unanswered; whatever
\* the analysis comes to, it leaves the log and the listeners alone and
\* shows no toast, and unless the text is found AI-generated no dialog.
C16_PasteRecordedWhateverAnalysis ==
    [][/\ (clock' > clock /\ listeners["paste"] > 0) =>
          \A len \in TextLengths :
             handlePaste(len) =>
                 /\ violations' = Append(violations, PasteViolation(len, clock))
                 /\ dispatched' = <<[type |-> "clipboardViolation",
                                     detail |-> PasteViolation(len, clock)]>>
                 /\ toasts' = <<>> /\ alerts' = <<>>
       /\ pending'["analyze"] < pending["analyze"] =>
          \A a \in AnalysisOutcomes :
             analyzePastedTextResume(a) =>
                 /\ UNCHANGED <<violations, enabled, listeners>>
                 /\ toasts' = <<>>
                 /\ a # "ai" => alerts' = <<>>]_vars

\* C16 witness: two long texts were pasted; the analysis of one was
\* rejected, the other is unanswered; both records are in the log.
C16_Witness ==
    /\ Len(violations) = 2
    /\ violations[1].type = "PASTE" /\ violations[1].textLength > AnalysisThreshold
    /\ violations[2].type = "PASTE" /\ violations[2].textLength > AnalysisThreshold
    /\ pending["analyze"] = 1
    /\ Len(consoleErrors) = 1 /\ consoleErrors[1].label = AnalyzeFailed
    /\ alerts = <<>>

----------------------------------------------------------------------------
(* Notifications: properties *)

\* C17: at most one toast of window.toast, the channel of the session
\* controller, is in the container at any instant.
C17_OneToastVisible == Len(container) <= 1

\* C18: the notifications are rendered in the order of the calls of show,
\* each call once: what has been rendered, followed by what waits in the
\* queue, is the sequence of the calls at every instant, and the queue is
\* emptied again and again, so every notification passed to show is rendered.
C18_DisplayedInEnqueueOrder ==
    /\ [](displayed \o notificationQueue = enqueued)
    /\ []<>(notificationQueue = <<>>)

\* C18 witness: A, B and A again were passed to show, in that order, and all
\* three have been rendered.
C18_Witness ==
    /\ enqueued = <<Notification("A", "info"), Notification("B", "error"),
                    Notification("A", "info")>>
    /\ displayed = enqueued
    /\ ~isShowing

----------------------------------------------------------------------------
(* Requests: properties *)

\* C21: no request stays pending forever: for every kind of request, either
\* none is pending again and again, or pending ones are settled again and
\* again.
C21_EveryRequestSettles ==
    \A op \in Ops :
        \/ []<>(pending[op] = 0)
        \/ []<><<pending'[op] < pending[op]>>_vars

\* The error that reached the catch block of the handler is 'Request timeout'
\* exactly when the request of outcome o was aborted by the timer.
ToldTimeout(o) ==
    (consoleErrors' # <<>> /\ consoleErrors'[1].error = RequestTimeout) <=> o.t = "abort"

\* C22: a request that times out fails with the reason 'Request timeout', and
\* no other failure (HTTP status, network error, unsuccessful body) reaches a
\* caller with that reason.
C22_TimeoutIsDistinct ==
    [][/\ pending'["start"] < pending["start"] =>
             \A o \in FetchOutcomes("start") : startProctoringResume(o) => ToldTimeout(o)
       /\ pending'["stop"] < pending["stop"] =>
             \A o \in FetchOutcomes("stop") : stopProctoringResume(o) => ToldTimeout(o)
       /\ pending'["screenshot"] < pending["screenshot"] =>
             \A o \in FetchOutcomes("screenshot") : takeScreenshotResume(o) => ToldTimeout(o)
       /\ pending'["status"] < pending["status"] =>
             \A o \in FetchOutcomes("status") : checkSystemStatusDone(o) => ToldTimeout(o)
       /\ pending'["init"] < pending["init"] =>
             \A o \in FetchOutcomes("init") : init(o) => ToldTimeout(o)]_vars

\* C22 witness: a start request has timed out and the user is told so.
C22_Witness ==
    /\ toasts = <<Toast(FailedStartColon \o RequestTimeout, "error", ErrorDuration)>>
    /\ consoleErrors # <<>> /\ consoleErrors[1].error = RequestTimeout
    /\ ~isProctoring

----------------------------------------------------------------------------
(* Settings: properties *)

\* n is a polling interval the settings dialog allows.
ValidInterval(n) == MinRefreshInterval <= n /\ n <= MaxRefreshInterval

\* C23: the stored polling interval is a number between 500 and 10000 ms,
\* and so is the period of every polling timer.
C23_IntervalInRange ==
    /\ ~settings.refreshInterval.nan
    /\ ValidInterval(settings.refreshInterval.val)
    /\ \A t \in timers : ValidInterval(t.period)

----------------------------------------------------------------------------
(* Statistics: properties *)

\* The sum of the values of a function with a finite domain.
RECURSIVE SumOf(_)
SumOf(f) ==
    IF DOMAIN f = {} THEN 0
    ELSE LET k == CHOOSE x \in DOMAIN f : TRUE
         IN f[k] + SumOf([x \in DOMAIN f \ {k} |-> f[x]])

\* C24: getStats leaves the log and the enabled flag as they are, and returns
\* total = the length of the log, per-type counts that sum to total, and as
\* recent the last min(10, total) records in their order of arrival.
C24_GetStatsIsASnapshot ==
    [][getStats =>
        LET stats == returned'.value
            total == Len(violations)
            n     == IF total < 10 THEN total ELSE 10
        IN /\ violations' = violations
           /\ enabled' = enabled
           /\ stats.total = total
           /\ \A t \in DOMAIN stats.byType :
                  stats.byType[t] = Cardinality({i \in 1..total : violations[i].type = t})
           /\ SumOf(stats.byType) = total
           /\ Len(stats.recent) = n
           /\ \A i \in 1..n : stats.recent[i] = violations[total - n + i]]_vars

\* Statistics of a log of 11 records of both types: the oldest is not recent.
C24_Witness ==
    /\ returned.call = "getStats"
    /\ returned.value.total = 11
    /\ Len(violations) = 11
    /\ DOMAIN returned.value.byType = {"COPY", "PASTE"}
    /\ Len(returned.value.recent) = 10
    /\ returned.value.recent[1] = violations[2]
    /\ enabled

----------------------------------------------------------------------------
(* Paste analysis: properties *)

\* C25: a paste on the attached recorder appends exactly one PASTE record,
\* and sends the text to the AI analysis exactly when it is longer than 50
\* characters (80 characters: sent; 50 characters: not sent).  A copy and a
\* cut never send anything to the analysis.
C25_AnalysisOnlyForLongPaste ==
    [][(clock' > clock /\ enabled) =>
          \A len \in TextLengths :
             /\ handlePaste(len) =>
                   /\ Len(violations') = Len(violations) + 1
                   /\ SubSeq(violations', 1, Len(violations)) = violations
                   /\ violations'[Len(violations')].type = "PASTE"
                   /\ violations'[Len(violations')].textLength = len
                   /\ len > 50 => pending'["analyze"] = pending["analyze"] + 1
                   /\ len <= 50 => pending'["analyze"] = pending["analyze"]
                   /\ len = 80 => pending'["analyze"] = pending["analyze"] + 1
             /\ handleCopy(len) => pending'["analyze"] = pending["analyze"]
             /\ handleCut(len) => pending'["analyze"] = pending["analyze"]]_vars

\* C25 witness: a paste of 80 characters, a paste of 50 and a copy of 150
\* were recorded, and one analysis was asked for.
C25_Witness ==
    /\ Len(violations) = 3
    /\ violations[1].type = "PASTE" /\ violations[1].textLength = 80
    /\ violations[2].type = "PASTE" /\ violations[2].textLength = 50
    /\ violations[3].type = "COPY" /\ violations[3].textLength = 150
    /\ pending["analyze"] = 1
    /\ consoleErrors = <<>> /\ alerts = <<>>

----------------------------------------------------------------------------
(* Published clipboard events: properties *)

\* The record a clipboard event of the given kind produces now.
EventRecords ==
    { CopyViolation(LongText, clock), CutViolation(LongText, clock),
      PasteViolation(ShortText, clock) }

\* C26: every copy, cut or paste on the attached recorder appends exactly one
\* record to the log and publishes exactly one clipboardViolation event that
\* carries this record, also when the append drops the oldest record: the
\* events published are as many as the records appended.
C26_OneEventPerRecord ==
    [][(clock' > clock /\ enabled) =>
          LET appended == violations'[Len(violations')]
              kept     == IF Len(violations) = maxViolations
                          THEN Tail(violations) ELSE violations
          IN /\ appended \in EventRecords
             /\ violations' = Append(kept, appended)
             /\ Len(dispatched') = 1
             /\ dispatched'[1].type = "clipboardViolation"
             /\ dispatched'[1].detail = appended]_vars

\* C26 witness: a cut was recorded on a full log; the oldest record was
\* dropped and the event published carries the cut.
C26_Witness ==
    /\ clock = maxViolations + 2
    /\ Len(violations) = maxViolations
    /\ violations[1].timestamp = 2
    /\ violations[maxViolations].type = "CUT"
    /\ violations[maxViolations - 1].type = "PASTE"
    /\ dispatched = <<[type |-> "clipboardViolation",
                       detail |-> violations[maxViolations]]>>

----------------------------------------------------------------------------
(* Notification timers: properties *)

\* The notification element with its close button clicked only while a
\* notification is displayed.
NextDismissal ==
    \/ \E n \in NotificationCalls : notificationsShow(n)
    \/ element.shown /\ closeClick
    \/ \E i \in 1..Len(nTimers) : timerFires(i)

SpecDismissal == Init /\ [][NextDismissal]_vars

\* The auto-hide timer set when the notification now displayed was shown.
OwnTimer(i) ==
    /\ i \in 1..Len(nTimers)
    /\ nTimers[i].callback = "hide"
    /\ nTimers[i].during = Len(displayed)

\* C27: a displayed notification is hidden only by the close button or by
\* the duration timer that was set for it, and the next notification is
\* rendered only once the displayed one is hidden: a timer set for an earlier
\* notification never hides or replaces a later one.
C27_OnlyOwnTimerHides ==
    [][/\ (element.shown /\ ~element'.shown) =>
              \/ closeClick
              \/ \E i \in 1..Len(nTimers) : OwnTimer(i) /\ timerFires(i)
       /\ (displayed' # displayed) => ~element.shown]_vars

----------------------------------------------------------------------------
(* Display consumers of the poll: properties *)

\* C28: every successful fetch of the running session becomes the current
\* snapshot and is delivered to the video statistics and to the analytics
\* panel, whose risk score is then the one of this poll.
C28_PollReachesEveryConsumer ==
    [][(pending'["fetch"] < pending["fetch"] /\ isProctoring) =>
          \A o \in FetchOutcomes("fetch") :
             (refreshResultsResume(o) /\ o.t = "body" /\ o.success) =>
                 /\ riskScore' = o.data
                 /\ videoStats' = [given |-> TRUE, risk_score |-> o.data]
                 /\ metrics'.riskScore = o.data]_vars

\* C30: once a poll has returned the risk score 9 the analytics panel shows
\* the alert level CRITICAL; after polls of lower scores it shows NORMAL.
C30_AlertLevelFollowsRisk ==
    lastUpdate =>
        metrics.alertLevel = (IF riskScore = 9 THEN "CRITICAL" ELSE "NORMAL")

----------------------------------------------------------------------------
(* Analytics panel: properties *)

\* The value update stores for the field f of results: the value of the
\* field, or the default of the metric when the field is absent.
Stored(results, f, default) == IF f \in DOMAIN results THEN results[f] ELSE default

\* C29: update(results) replaces the metrics wholesale: afterwards every
\* metric is the value of its field in results, or its default when the
\* field is absent; none keeps its earlier value.
C29_UpdateReplacesMetrics ==
    [][\A results \in ResultObjects :
          update(results) =>
              /\ metrics'.riskScore = Stored(results, "risk_score", 0)
              /\ metrics'.gazeLevel = Stored(results, "gaze_level", 0)
              /\ metrics'.personCount = Stored(results, "person_count", 0)
              /\ metrics'.prohibitedItems = Stored(results, "prohibited_items", <<>>)
              /\ metrics'.alertLevel = Stored(results, "alert_level", "NORMAL")]_vars

\* C29 witness: after an update that carried every field, an update with
\* the risk score alone has put every other metric back to its default.
C29_Witness ==
    /\ metrics = [riskScore |-> 2, gazeLevel |-> 0, personCount |-> 0,
                  prohibitedItems |-> <<>>, alertLevel |-> "NORMAL"]
    /\ riskMeter = [score |-> 2, scoreClass |-> "safe",
                    status |-> "NORMAL", statusClass |-> "safe"]

----------------------------------------------------------------------------
(* Violation log: frame properties *)

\* The calls that are to leave the log alone.
LogReaders ==
    \/ CallStart
    \/ CallStop
    \/ startProctoring
    \/ \E o \in FetchOutcomes("start") : startProctoringResume(o)
    \/ stopProctoring
    \/ \E o \in FetchOutcomes("stop") : stopProctoringResume(o)
    \/ getStats
    \/ getViolations
    \/ generateReport
    \/ \E n \in 0..MaxRecords : truncateReturned(n)

\* C31: records leave the log only by eviction of the oldest or by
\* clearViolations(): start() and stop() of the recorder, start and stop of
\* the session, getStats(), getViolations() and generateReport() leave the
\* content and the order of the log as they are, and so does a change made
\* to the array that getViolations() returned.
C31_LogLeftAlone ==
    [][violations' # violations =>
          /\ ~LogReaders
          /\ \/ clearViolations
             \/ /\ Len(violations') = Len(violations) + 1
                /\ SubSeq(violations', 1, Len(violations)) = violations
             \/ /\ Len(violations) = maxViolations
                /\ Len(violations') = maxViolations
                /\ SubSeq(violations', 1, maxViolations - 1) = Tail(violations)]_vars

\* C31 witness: the session was started and stopped around two recorded
\* copies; the array returned by getViolations was emptied by its caller and
\* the log still holds both records in order.
C31_Witness ==
    /\ returned.call = "getViolations"
    /\ returned.value = <<>>
    /\ Len(violations) = 2
    /\ violations[1].timestamp = 0 /\ violations[2].timestamp = 1
    /\ ~enabled /\ ~isProctoring
    /\ pending["stop"] = 0 /\ pending["start"] = 0

----------------------------------------------------------------------------
(* Idle sessions: properties *)

\* C32: the step that sets the session to Idle detaches the listeners of the
\* recorder and cancels the polling timer, and while the session is Idle no
\* listener is attached and no tick of a polling timer fires.
C32_IdleIsQuiet ==
    [][/\ (isProctoring /\ ~isProctoring') =>
              /\ timers' = {} /\ autoRefreshInterval' = NULL
              /\ ~enabled' /\ \A e \in EventTypes : listeners'[e] = 0
       /\ ~isProctoring =>
              /\ ~enabled /\ \A e \in EventTypes : listeners[e] = 0
              /\ ~(\E t \in timers : Tick(t))]_vars

----------------------------------------------------------------------------
(* Notification queue: the isShowing flag *)

\* C33: isShowing is false only when no notification is displayed, so that
\* show() never renders a new notification over one that is still displayed.
C33_NotShowingMeansHidden ==
    [][/\ ~isShowing => ~element.shown
       /\ \A n \in NotificationCalls :
             (notificationsShow(n) /\ displayed' # displayed) => ~element.shown]_vars

----------------------------------------------------------------------------
(* Notification queue: progress *)

\* C34: with every timer firing in the end, each notification passed to
\* show() is eventually rendered, and once no more are passed the queue is
\* eventually empty, and stays so, with isShowing false.
C34_EveryNotificationDisplayed ==
    /\ \A k \in 1..MaxNotifications :
          (Len(enqueued) >= k) ~> (Len(displayed) >= k)
    /\ <>[](notificationQueue = <<>> /\ ~isShowing)

\* C34 witness: three notifications were passed to show while the first was
\* displayed; all were rendered, every timer has fired and the component is
\* at rest.
C34_Witness ==
    /\ Len(enqueued) = MaxNotifications
    /\ displayed = enqueued
    /\ enqueued[1] # enqueued[2]
    /\ notificationQueue = <<>>
    /\ ~isShowing
    /\ ~element.shown
    /\ nTimers = <<>>

----------------------------------------------------------------------------
(* Sessions and stale stop responses: properties *)

\* C35: a session leaves Active only by the response to a stop request that
\* was sent during this session, never by the response to a stop request of
\* an earlier session; such a response leaves the polling timer and the
\* recorder of the running session alone.
C35_StaleStopIsIgnored ==
    [][pending'["stop"] < pending["stop"] =>
          \A o \in FetchOutcomes("stop") :
             (stopProctoringResumeTracked(o, TRUE) /\ isProctoring) =>
                 /\ isProctoring'
                 /\ UNCHANGED <<timers, autoRefreshInterval, enabled, listeners>>]_vars

----------------------------------------------------------------------------
(* Settings and the running session: properties *)

\* C36: saving the settings leaves the clipboard-monitoring setting as it
\* was, and every successful start of a session attaches the recorder (the
\* setting is enabled when the application is constructed).
C36_SaveKeepsClipboardMonitoring ==
    [][/\ FieldTrue(settings, "monitorClipboard") =>
              FieldTrue(settings', "monitorClipboard")
       /\ (~isProctoring /\ isProctoring') =>
              enabled' /\ \A e \in Monitored : listeners'[e] = 1]_vars

\* The interval startAutoRefresh would take from the settings now.
ConfiguredInterval ==
    IF Truthy(settings.refreshInterval)
    THEN settings.refreshInterval.val ELSE DefaultRefreshInterval

\* C37: whenever the polling timer is running its period is the interval
\* configured in the settings.
C37_PeriodIsConfiguredInterval ==
    \A t \in timers : t.period = ConfiguredInterval

----------------------------------------------------------------------------
(* The violation counter of the controller: properties *)

\* C38: the clipboardViolations counter of the controller is the number of
\* clipboardViolation events the recorder has published so far.
C38_CounterCountsPublishedEvents == clipboardViolations = published

----------------------------------------------------------------------------
(* Legacy controller: properties *)

\* The live timers of the legacy page that load statistics.
StatsTimers == {t \in uiTimers : t.callback # "uptime"}

\* C39: every live statistics timer of the legacy controller is the one
\* updateInterval or statsInterval refers to, at most one slow and one fast
\* statistics timer exist, and while the page is back in its stopped state
\* no fast statistics timer is running.
C39_StatsTimersAreReferenced ==
    /\ \A t \in StatsTimers : t.id \in {updateInterval, statsInterval}
    /\ Cardinality({t \in StatsTimers : t.period = SlowPeriod}) <= 1
    /\ Cardinality({t \in StatsTimers : t.period = FastPeriod}) <= 1
    /\ (~uiIsProctoring /\ stopBtnDisabled) =>
           \A t \in StatsTimers : t.period # FastPeriod

====
